---- MODULE Spec2Model ----
(***************************************************************************)
(* Model of nova_pg: the transaction scope get_cursor (nova_pg/utils.py)   *)
(* and the chunked bulk loader insert_dataframe (nova_pg/toolbox.py)       *)
(* running as the body of a `with get_cursor(url) as cur:` block.          *)
(***************************************************************************)
EXTENDS Integers, Sequences, FiniteSets, TLC

VARIABLES
    df,         \* the DataFrame handed to insert_dataframe: [columns, rows]
    chunksize,  \* the chunksize argument of insert_dataframe
    pc,         \* position of get_cursor
    calls,      \* calls made on psycopg2 / the connection, in order
    err,        \* the exception in flight, finally the one the caller sees
    workErr,    \* the exception the with-body raised (NoExc if none)
    ins_pc,     \* position of insert_dataframe inside the with-body
    start,      \* insert_dataframe local `start`
    end,        \* insert_dataframe local `end`
    chunk,      \* insert_dataframe local `chunk` (rows of df.iloc[start:end])
    chunks,     \* the [lo, hi) row ranges of the chunks computed so far
    bufCreated, \* number of io.StringIO buffers created
    bufOpen,    \* number of buffers created and not yet closed
    bufData,    \* content of the current buffer (CSV lines)
    insExc,     \* exception pending in insert_dataframe's try statement
    copyCalls,  \* the copy_expert calls made on the cursor, in order
    pending,    \* lines written by the open transaction, not yet committed
    committed,  \* lines of the target table that are committed
    connOpen,   \* the connection is open on the server
    cred,       \* the credential record (db_cred_dict) of the caller
    cfg_pc,     \* position of the configuration step before get_cursor
    keysCheck,  \* the tuple _db_keys_check returned last
    url,        \* the connection string build_connection_string returned
    cfgErr,     \* the exception the configuration step raised
    f_pc,       \* position of fetch_in_chunks inside the with-body
    query,      \* the query argument of fetch_in_chunks
    batch_size, \* the batch_size argument of fetch_in_chunks
    rows_estimate, \* fetch_in_chunks local `rows_estimate`
    curResult,  \* rows of the cursor's current result set not yet fetched
    description, \* cursor.description: column names of the last statement
    results,    \* fetch_in_chunks local `results`
    progress,   \* the progress task: [total, completed]
    pulled,     \* the batches cur.fetchmany delivered, in order
    curLog,     \* statements and fetches made on the cursor by the reader
    fetchRet,   \* what fetch_in_chunks returned: [returned, rows, columns]
    ct_pc,      \* position of create_table inside the with-body
    schema_name, \* the schema_name argument of create_table (characters)
    table_name, \* the table_name argument of create_table (characters)
    columns_map, \* the columns_map argument: <<column, dtype>> in dict order
    dbSchemas,  \* names in pg_namespace
    dbTables,   \* <<schema, table>> pairs in information_schema.tables
    ctLog,      \* statements create_table had the cursor run, in order
    ctErr       \* the exception create_table raised (NoExc if none)

vars == <<df, chunksize, pc, calls, err, workErr, ins_pc, start, end, chunk,
          chunks, bufCreated, bufOpen, bufData, insExc, copyCalls, pending,
          committed, connOpen, cred, cfg_pc, keysCheck, url, cfgErr, f_pc,
          query, batch_size, rows_estimate, curResult, description, results,
          progress, pulled, curLog, fetchRet, ct_pc, schema_name, table_name,
          columns_map, dbSchemas, dbTables, ctLog, ctErr>>

ctVars == <<ct_pc, schema_name, table_name, columns_map, dbSchemas, dbTables,
            ctLog, ctErr>>

cfgVars == <<cred, cfg_pc, keysCheck, url, cfgErr>>

fetchVars == <<f_pc, query, batch_size, rows_estimate, curResult, description,
               results, progress, pulled, curLog, fetchRet>>

insVars == <<ins_pc, start, end, chunk, chunks, bufCreated, bufOpen, bufData,
             insExc, copyCalls>>

(* ---------------------------- bounds ---------------------------------- *)
MaxRows == 3
MaxChunk == 4
MaxBatch == 4
MaxCalls == 5    \* loop iterations of one insert_dataframe call that are logged

(* --------------------------- helpers ---------------------------------- *)
Min(a, b) == IF a < b THEN a ELSE b
Max(a, b) == IF a > b THEN a ELSE b

RECURSIVE Concat(_)
Concat(ss) == IF ss = <<>> THEN <<>> ELSE Head(ss) \o Concat(Tail(ss))

Count(op) == Cardinality({i \in DOMAIN calls : calls[i] = op})

Pos(op) == IF \E i \in DOMAIN calls : calls[i] = op
           THEN CHOOSE i \in DOMAIN calls : calls[i] = op
           ELSE 0

CeilDiv(n, d) == (n + d - 1) \div d

(* --------------------------- exceptions ------------------------------- *)
Exc(t, m, tbl, c) == [type |-> t, msg |-> m, table |-> tbl, cause |-> c]
NoExc == Exc("none", "", "", "none")

\* `except Exception` catches everything but BaseException-only classes
IsException(e) == e.type \notin {"none", "KeyboardInterrupt"}

Schema == "mock_schema"
TableName == "mock_prices"
QualifiedName == <<Schema, TableName>>

CopyErrors == {"db copy error", "connection lost"}

ConnectionErrorExc == Exc("ConnectionError", "Connection to db failed", "", "psycopg2.Error")
CursorErrorExc == Exc("psycopg2.Error", "cursor failed", "", "none")
CommitErrorExc == Exc("psycopg2.Error", "commit failed", "", "none")
RollbackErrorExc == Exc("psycopg2.Error", "rollback failed", "", "none")
CurCloseErrorExc == Exc("psycopg2.Error", "cursor close failed", "", "none")
ConnCloseErrorExc == Exc("psycopg2.Error", "connection close failed", "", "none")
EmptyErrorExc == Exc("ValueError", "The provided DataFrame is empty and cannot be inserted.", "", "none")
ToCsvErrorExc == Exc("UnicodeEncodeError", "to_csv failed", "", "none")
BoomExc == Exc("Exception", "boom", "", "none")
InterruptExc == Exc("KeyboardInterrupt", "", "", "none")
TransferErrorExc(c) == Exc("RuntimeError", "Error inserting DataFrame into", QualifiedName, c)

(* ----------------------------- DataFrame ------------------------------ *)
Columns == <<"ticker", "price">>

\* row i of the frame: its index label and its values in column order
Row(i) == [idx |-> i - 1, vals |-> <<i, 100 + i>>]

Frame(cols, n) == [columns |-> cols, rows |-> [i \in 1..n |-> Row(i)]]

Frames == {Frame(c, n) : c \in {<<>>, Columns}, n \in 0..MaxRows}

DfLen(d) == Len(d.rows)

\* variant: only the row count is looked at
DfEmptyRowsOnly(d) == Len(d.rows) = 0

\* DataFrame.empty: any axis of length 0
DfEmpty(d) == Len(d.rows) = 0 \/ Len(d.columns) = 0

\* positional slice bound, as Python normalises it
SliceBound(i, n) == IF i < 0 THEN Max(i + n, 0) ELSE Min(i, n)

\* variant: the slice always starts at the first row, df.iloc[:e]
IlocFromTop(rows, s, e) == SubSeq(rows, 1, SliceBound(e, Len(rows)))

\* df.iloc[s:e]
Iloc(rows, s, e) == SubSeq(rows, SliceBound(s, Len(rows)) + 1, SliceBound(e, Len(rows)))

\* variant: to_csv with index=True, the index label leads each line
ToCsvWithIndex(rows) == [i \in 1..Len(rows) |-> <<rows[i].idx>> \o rows[i].vals]

\* chunk.to_csv(buffer, index=False, header=False): one line per row, the
\* values in column order, no index label and no header line
ToCsv(rows) == [i \in 1..Len(rows) |-> rows[i].vals]

(* ------------------- insert_dataframe: arithmetic --------------------- *)
\* end = min(start + chunksize, len(df))
InitEnd(s, c, n) == Min(s + c, n)

\* start = end
NextStart(s, e) == e

\* variant: end advances one row too far
NextEndOffByOne(e, c) == e + c + 1

\* end += chunksize
NextEnd(e, c) == e + c

\* while start < len(df)
LoopGuard(s, n) == s < n

\* the row range [lo, hi) that df.iloc[s:e] selects
Range(s, e, n) ==
    [lo |-> SliceBound(s, n), hi |-> Max(SliceBound(s, n), SliceBound(e, n))]

(* ------------------------- get_cursor: dispatch ----------------------- *)
\* variant: the transaction is committed however the with-body ended
BodyExitAlwaysCommit(e) == "commit"

\* where the try statement of get_cursor continues when the with-body ends
\* with exception e (NoExc: it completed)
BodyExitTarget(e) ==
    IF e = NoExc THEN "commit"
    ELSE IF IsException(e) THEN "rollback"
    ELSE "cur_close"

\* where get_cursor continues after conn.commit()
CommitTarget(ok) == IF ok THEN "cur_close" ELSE "rollback"

\* variant: a failed cur.close() is handled by the rollback clause
CurCloseFailureRollsBack(ok) == IF ok THEN "conn_close" ELSE "rollback"

\* where get_cursor continues after cur.close() in the finally clause
CurCloseTarget(ok) == IF ok THEN "conn_close" ELSE "done"

\* the exception in flight after conn.rollback(): the bare `raise` re-raises
\* the caught one, a failing rollback replaces it
AfterRollbackExc(ok, caught) == IF ok THEN caught ELSE RollbackErrorExc

\* the with-body ends with exception e: control returns into get_cursor
BodyExit(e) ==
    /\ workErr' = e
    /\ err' = e
    /\ pc' = BodyExitTarget(e)

(* --------------------------- configuration --------------------------- *)
StandardKeys == {"host", "port", "dbname", "user", "password"}

\* keys a credential record can hold: the standard ones and a foreign one
CredKeys == StandardKeys \cup {"sslmode"}

CredValue(k) ==
    CASE k = "host" -> "localhost"
      [] k = "port" -> "5432"
      [] k = "dbname" -> "nova"
      [] k = "user" -> "admin"
      [] k = "password" -> "secret"
      [] OTHER -> "require"

\* the credential records: any subset of the keys, each with its value
Creds == {[k \in ks |-> CredValue(k)] : ks \in SUBSET CredKeys}

\* variant: the difference is taken the wrong way round
DbKeysCheckReversed(d) ==
    <<StandardKeys \subseteq DOMAIN d, (DOMAIN d) \ StandardKeys>>

\* _db_keys_check: (all_keys_present, missing_keys)
DbKeysCheck(d) ==
    <<StandardKeys \subseteq DOMAIN d, StandardKeys \ (DOMAIN d)>>

\* the f-string of build_connection_string
ConnectionString(d) ==
    <<"postgresql://", d["user"], ":", d["password"], "@", d["host"], ":",
      d["port"], "/", d["dbname"], "?sslmode=require">>

MissingKeysExc == Exc("Exception", "Missing required keys", "", "none")
EnvNotFoundExc == Exc("Exception", "Environment not found", "", "none")
LoadErrorExc(c) == Exc("Exception", "Error loading DB configuration", "", c)

\* what can go wrong reading the file: open() or json.load() fails
FileOutcomes == {"ok", "FileNotFoundError", "JSONDecodeError"}

\* load_db_config: read the file, take the environment's section, check its
\* keys; every failure is re-raised as "Error loading DB configuration"
LoadDbConfig ==
    /\ cfg_pc = "load"
    /\ \E file \in FileOutcomes, envPresent \in BOOLEAN :
          IF file # "ok"
          THEN /\ cfgErr' = LoadErrorExc(file)
               /\ cfg_pc' = "raised"
               /\ UNCHANGED keysCheck
          ELSE IF ~envPresent \/ DOMAIN cred = {}
          THEN /\ cfgErr' = LoadErrorExc(EnvNotFoundExc.msg)
               /\ cfg_pc' = "raised"
               /\ UNCHANGED keysCheck
          ELSE /\ keysCheck' = DbKeysCheck(cred)
               /\ IF DbKeysCheck(cred)[1]
                  THEN /\ cfg_pc' = "build"
                       /\ UNCHANGED cfgErr
                  ELSE /\ cfg_pc' = "raised"
                       /\ cfgErr' = LoadErrorExc(MissingKeysExc.msg)
    /\ UNCHANGED <<cred, url>>
    /\ UNCHANGED <<df, chunksize, pc, calls, err, workErr, pending, committed,
                   connOpen>>
    /\ UNCHANGED <<insVars, fetchVars, ctVars>>

\* build_connection_string, on the record load_db_config returned or on a
\* record the caller holds
BuildConnectionString ==
    /\ cfg_pc \in {"load", "build"}
    /\ keysCheck' = DbKeysCheck(cred)
    /\ IF DbKeysCheck(cred)[1]
       THEN /\ url' = ConnectionString(cred)
            /\ cfg_pc' = "built"
            /\ UNCHANGED cfgErr
       ELSE /\ cfgErr' = MissingKeysExc
            /\ cfg_pc' = "raised"
            /\ UNCHANGED url
    /\ UNCHANGED cred
    /\ UNCHANGED <<df, chunksize, pc, calls, err, workErr, pending, committed,
                   connOpen>>
    /\ UNCHANGED <<insVars, fetchVars, ctVars>>


(* ------------------------- the target table --------------------------- *)
\* the lines the session sees in the target table: committed ones and its own
VisibleLines == committed \o pending

\* variant: the fields are assigned to the listed columns back to front
ParseLineReversed(cols, line) ==
    [c \in {cols[i] : i \in DOMAIN cols} |->
        line[Len(cols) + 1 - (CHOOSE i \in DOMAIN cols : cols[i] = c)]]

\* COPY ... (cols) FROM STDIN WITH CSV: a line becomes a table row, its
\* fields assigned to the listed columns by position
ParseLine(cols, line) ==
    [c \in {cols[i] : i \in DOMAIN cols} |->
        line[CHOOSE i \in DOMAIN cols : cols[i] = c]]

TableRows == [i \in 1..Len(VisibleLines) |-> ParseLine(df.columns, VisibleLines[i])]

\* the queries of the reader: SELECT <columns> FROM schema.table
\* WHERE ticker > after
Projections == {Columns, <<"price", "ticker">>}
Queries == {[columns |-> p, after |-> k] : p \in Projections, k \in 0..MaxRows}
NoQuery == [columns |-> <<>>, after |-> 0]

Project(q, r) == [j \in DOMAIN q.columns |-> r[q.columns[j]]]

Matches(q, r) == r["ticker"] > q.after

\* the result set the server builds for query q, in table order
QueryResult(q, rows) ==
    LET kept == SelectSeq(rows, LAMBDA r : Matches(q, r))
    IN  [i \in 1..Len(kept) |-> Project(q, kept[i])]

(* ------------------------- estimate_table_rows ------------------------- *)
\* reltuples values pg_class can hold: -1 (never analyzed), 0, and counts
\* below and above the size of any result set
CatalogTuples == {-1, 0, 2, MaxRows + 2}

\* what the catalog lookup yields: no row, one row (reltuples, relpages), or
\* two rows when the relname exists in two schemas
CatalogAnswers ==
    {<<>>} \cup {<< <<t, 1>> >> : t \in CatalogTuples}
           \cup {<< <<2, 1>>, <<0, 1>> >>}

CatalogColumns == <<"reltuples", "relpages">>

\* cur.fetchone() on an exhausted result set returns None
NoRow == <<>>

FallbackEstimate == 100000

\* estimated_rows = int(row[0]) if row is not None else 100_000
EstimatedRows(row) == IF row # NoRow THEN row[1] ELSE FallbackEstimate

DriverErrors == {"server error", "connection lost"}

\* variant: the raised error does not carry the cause
FetchErrorNoCause(c) == Exc("Exception", "An error occurred during fetch", "", "none")

\* raise Exception(f"An error occurred during fetch: {e}")
FetchErrorExc(c) == Exc("Exception", "An error occurred during fetch", "", c)

(* --------------------------- fetch_in_chunks -------------------------- *)
NoReturn == [returned |-> FALSE, rows |-> <<>>, columns |-> <<>>]

LogEntry(o, st, k, out) == [op |-> o, stmt |-> st, n |-> k, outcome |-> out]

\* variant: a new statement's rows are queued behind the unread ones
ExecuteKeepsUnread(unread, fresh) == unread \o fresh

\* cur.execute(...): the new statement's result set replaces the current one
ExecuteResult(unread, fresh) == fresh

\* cur.fetchone(): the next row of the result set, or None
FetchOne(rs) == IF rs = <<>> THEN NoRow ELSE Head(rs)

\* variant: a pull hands out one row at a time
FetchManyOneRow(rs, n) == SubSeq(rs, 1, Min(1, Len(rs)))

\* cur.fetchmany(n): the next rows of the result set, at most n
FetchMany(rs, n) == SubSeq(rs, 1, Min(n, Len(rs)))

\* the result set after k of its rows were fetched
Rest(rs, k) == SubSeq(rs, k + 1, Len(rs))

\* variant: a batch shorter than batch_size ends the loop
PullIsTerminalShort(batch) == Len(batch) < batch_size

\* if not batch: break
PullIsTerminal(batch) == batch = <<>>

\* variant: the batch replaces what was accumulated
ExtendOverwrite(res, batch) == batch

\* results.extend(batch)
Extend(res, batch) == res \o batch

\* return results
FetchResult(res, desc) == [returned |-> TRUE, rows |-> res, columns |-> <<>>]

\* except Exception as e: raise Exception(...): the error leaves
\* fetch_in_chunks and the with-body
FetchRaise(cause) ==
    /\ f_pc' = "raised"
    /\ BodyExit(FetchErrorExc(cause))

FetchGuard(at) ==
    /\ pc = "work"
    /\ ins_pc = "returned"
    /\ f_pc = at

\* estimate_table_rows: cur.execute(<catalog lookup>, (table_name,))
FetchEstExecute ==
    /\ FetchGuard("idle")
    /\ \E q \in Queries, b \in 1..MaxBatch :
          /\ query' = q
          /\ batch_size' = b
    /\ \E outcome \in {"ok"} \cup DriverErrors :
       /\ curLog' = Append(curLog, LogEntry("execute", "catalog", 0, outcome))
       /\ IF outcome = "ok"
          THEN /\ \E cat \in CatalogAnswers : curResult' = ExecuteResult(curResult, cat)
               /\ description' = CatalogColumns
               /\ f_pc' = "est_fetchone"
               /\ UNCHANGED <<pc, err, workErr>>
          ELSE /\ FetchRaise(outcome)
               /\ UNCHANGED <<curResult, description>>
    /\ UNCHANGED <<rows_estimate, results, progress, pulled, fetchRet>>
    /\ UNCHANGED <<df, chunksize, calls, pending, committed, connOpen>>
    /\ UNCHANGED <<insVars, cfgVars, ctVars>>

\* estimate_table_rows: row = cur.fetchone(); return the estimate
FetchEstFetchone ==
    /\ FetchGuard("est_fetchone")
    /\ \E outcome \in {"ok"} \cup DriverErrors :
       /\ curLog' = Append(curLog, LogEntry("fetchone", "catalog", 1, outcome))
       /\ IF outcome = "ok"
          THEN /\ rows_estimate' = EstimatedRows(FetchOne(curResult))
               /\ curResult' = Rest(curResult, 1)
               /\ f_pc' = "execute"
               /\ UNCHANGED <<pc, err, workErr>>
          ELSE /\ FetchRaise(outcome)
               /\ UNCHANGED <<rows_estimate, curResult>>
    /\ UNCHANGED <<query, batch_size, description, results, progress, pulled,
                   fetchRet>>
    /\ UNCHANGED <<df, chunksize, calls, pending, committed, connOpen>>
    /\ UNCHANGED <<insVars, cfgVars, ctVars>>

\* cur.execute(query); results = []; progress.add_task(total=rows_estimate)
FetchExecute ==
    /\ FetchGuard("execute")
    /\ \E outcome \in {"ok"} \cup DriverErrors :
       /\ curLog' = Append(curLog, LogEntry("execute", "query", 0, outcome))
       /\ IF outcome = "ok"
          THEN /\ curResult' = ExecuteResult(curResult, QueryResult(query, TableRows))
               /\ description' = query.columns
               /\ results' = <<>>
               /\ progress' = [total |-> rows_estimate, completed |-> 0]
               /\ f_pc' = "pull"
               /\ UNCHANGED <<pc, err, workErr>>
          ELSE /\ FetchRaise(outcome)
               /\ UNCHANGED <<curResult, description, results, progress>>
    /\ UNCHANGED <<query, batch_size, rows_estimate, pulled, fetchRet>>
    /\ UNCHANGED <<df, chunksize, calls, pending, committed, connOpen>>
    /\ UNCHANGED <<insVars, cfgVars, ctVars>>

\* batch = cur.fetchmany(batch_size); if not batch: break (return results);
\* progress.update(task, advance=len(batch)); results.extend(batch)
FetchPull ==
    /\ FetchGuard("pull")
    /\ \E outcome \in {"ok"} \cup DriverErrors :
       /\ curLog' = Append(curLog, LogEntry("fetchmany", "query", batch_size, outcome))
       /\ IF outcome = "ok"
          THEN LET batch == FetchMany(curResult, batch_size)
               IN  /\ pulled' = Append(pulled, batch)
                   /\ curResult' = Rest(curResult, Len(batch))
                   /\ IF PullIsTerminal(batch)
                      THEN /\ fetchRet' = FetchResult(results, description)
                           /\ f_pc' = "returned"
                           /\ UNCHANGED <<results, progress>>
                      ELSE /\ results' = Extend(results, batch)
                           /\ progress' = [progress EXCEPT
                                 !.completed = @ + Len(batch)]
                           /\ f_pc' = "pull"
                           /\ UNCHANGED fetchRet
                   /\ UNCHANGED <<pc, err, workErr>>
          ELSE /\ FetchRaise(outcome)
               /\ UNCHANGED <<pulled, curResult, results, progress, fetchRet>>
    /\ UNCHANGED <<query, batch_size, rows_estimate, description>>
    /\ UNCHANGED <<df, chunksize, calls, pending, committed, connOpen>>
    /\ UNCHANGED <<insVars, cfgVars, ctVars>>

\* create_table is not called
CtIdle ==
    /\ ct_pc = "idle"
    /\ schema_name = <<>>
    /\ table_name = <<>>
    /\ columns_map = <<>>
    /\ dbSchemas = {}
    /\ dbTables = {}
    /\ ctLog = <<>>
    /\ ctErr = NoExc

(* ------------------------------- Init --------------------------------- *)
Init ==
    /\ df \in Frames
    /\ chunksize \in 1..MaxChunk
    /\ pc = "start"
    /\ calls = <<>>
    /\ err = NoExc
    /\ workErr = NoExc
    /\ ins_pc = "idle"
    /\ start = 0
    /\ end = 0
    /\ chunk = <<>>
    /\ chunks = <<>>
    /\ bufCreated = 0
    /\ bufOpen = 0
    /\ bufData = <<>>
    /\ insExc = NoExc
    /\ copyCalls = <<>>
    /\ pending = <<>>
    /\ committed = <<>>
    /\ connOpen = FALSE
    /\ cred \in Creds
    /\ cfg_pc = "load"
    /\ keysCheck = <<TRUE, {}>>
    /\ url = <<>>
    /\ cfgErr = NoExc
    /\ f_pc = "idle"
    /\ query = NoQuery
    /\ batch_size = 0
    /\ rows_estimate = 0
    /\ curResult = <<>>
    /\ description = <<>>
    /\ results = <<>>
    /\ progress = [total |-> 0, completed |-> 0]
    /\ pulled = <<>>
    /\ curLog = <<>>
    /\ fetchRet = NoReturn
    /\ CtIdle

(* ---------------------------- create_table ---------------------------- *)
Quote == "'"

\* name.replace("'", "''")
RECURSIVE Escape(_)
Escape(s) ==
    IF s = <<>> THEN <<>>
    ELSE (IF Head(s) = Quote THEN <<Quote, Quote>> ELSE <<Head(s)>>)
         \o Escape(Tail(s))

\* the value the server reads from the text of a '...' literal
RECURSIVE LiteralValue(_)
LiteralValue(s) ==
    IF s = <<>> THEN <<>>
    ELSE IF Len(s) >= 2 /\ s[1] = Quote /\ s[2] = Quote
         THEN <<Quote>> \o LiteralValue(Tail(Tail(s)))
         ELSE <<Head(s)>> \o LiteralValue(Tail(s))

SchemaNames == {<<"r", "a", "w">>, <<"o", "'", "h">>}
TableNames == {<<"p", "x">>, <<"p", "'">>}

\* the names a probe of create_table can ask the catalog about, and the
\* arguments themselves
CatalogSchemas == SchemaNames \cup {Escape(n) : n \in SchemaNames}
CatalogTables == {<<Escape(n), Escape(t)>> : n \in SchemaNames, t \in TableNames}

PgMap ==
    ("int" :> "BIGINT") @@ ("float" :> "DOUBLE PRECISION") @@
    ("decimal" :> "NUMERIC") @@ ("bool" :> "BOOLEAN") @@ ("str" :> "TEXT") @@
    ("bytes" :> "BYTEA") @@ ("datetime" :> "TIMESTAMPTZ") @@
    ("date" :> "DATE") @@ ("time" :> "TIME") @@ ("timedelta" :> "INTERVAL")

Dtypes == {"int", "str", "json"}

ColumnMaps ==
    {<<>>}
    \cup {<< <<"id", t>> >> : t \in Dtypes}
    \cup {<< <<"id", t>>, <<"val", u>> >> : t \in Dtypes, u \in Dtypes}

\* the columns whose dtype is not in pg_map
Unsupported(cm) == {i \in DOMAIN cm : cm[i][2] \notin DOMAIN PgMap}

\* f"{col} {pg_map[dtype]}" for each item
ColumnDefs(cm) == [i \in DOMAIN cm |-> <<cm[i][1], PgMap[cm[i][2]]>>]

\* a statement: its kind and the text put where the names go
Stmt(k, s, t, c) == [kind |-> k, schema |-> s, table |-> t, columns |-> c]

\* CREATE TABLE {safe_schema}.{safe_table_name} ({column_defs});
CreateStmt(s, t, cm) == Stmt("create_table", Escape(s), Escape(t), ColumnDefs(cm))

\* schema_exists(schema_name=n): WHERE nspname = '{n escaped}'
SchemaExistsStmt(n) == Stmt("schema_exists", Escape(n), <<>>, <<>>)

\* table_exists(schema_name=n, table_name=t)
TableExistsStmt(n, t) == Stmt("table_exists", Escape(n), Escape(t), <<>>)

\* the one row SELECT EXISTS (...) yields
SchemaRow(st, schemas) == <<LiteralValue(st.schema) \in schemas>>
TableRow(st, tables) ==
    <<(<<LiteralValue(st.schema), LiteralValue(st.table)>> \in tables)>>

\* if row is None: return False; return bool(row[0])
ProbeAnswer(row) == IF row = NoRow THEN FALSE ELSE row[1]

CtEntry(st, out, r) == [stmt |-> st, outcome |-> out, row |-> r]

UnsupportedDtypeExc == Exc("ValueError", "Unsupported dtype", "", "none")
FetchOneErrorExc(c) == Exc("Exception", "An error occurred during fetch", "", c)
SchemaMissingExc == Exc("ValueError", "Schema does not exist.", "", "none")
TableExistsExc == Exc("ValueError", "Table already exists.", "", "none")
CreateErrorExc(c) == Exc("RuntimeError", "Error creating table", "", c)

\* if not schema_exists(...): raise ValueError
AfterSchemaProbe(exists) == IF exists THEN "table_probe" ELSE "raised"

\* variant: an existing table does not stop create_table
AfterTableProbeIgnored(exists) == "create"

\* if table_exists(...): raise ValueError
AfterTableProbe(exists) == IF exists THEN "raised" ELSE "create"

\* the for loop over columns_map.items(), then column_defs and query
CtCheckTypes ==
    /\ pc = "work"
    /\ ct_pc = "check_types"
    /\ IF Unsupported(columns_map) # {}
       THEN /\ ctErr' = UnsupportedDtypeExc
            /\ ct_pc' = "raised"
       ELSE /\ ct_pc' = "schema_probe"
            /\ UNCHANGED ctErr
    /\ UNCHANGED <<schema_name, table_name, columns_map, dbSchemas, dbTables,
                   ctLog>>
    /\ UNCHANGED <<insVars, cfgVars, fetchVars, df, chunksize, pc, calls, err,
                   workErr, pending, committed, connOpen>>

\* if not schema_exists(cur=cur, schema_name=safe_schema): raise ValueError
CtSchemaProbe ==
    /\ pc = "work"
    /\ ct_pc = "schema_probe"
    /\ \E out \in {"ok"} \cup DriverErrors :
        LET st == SchemaExistsStmt(Escape(schema_name))
            row == IF out = "ok" THEN SchemaRow(st, dbSchemas) ELSE NoRow
            target == IF out = "ok" THEN AfterSchemaProbe(ProbeAnswer(row))
                      ELSE "raised"
        IN /\ ctLog' = Append(ctLog, CtEntry(st, out, row))
           /\ ct_pc' = target
           /\ ctErr' = IF out # "ok" THEN FetchOneErrorExc(out)
                       ELSE IF target = "raised" THEN SchemaMissingExc
                       ELSE ctErr
    /\ UNCHANGED <<schema_name, table_name, columns_map, dbSchemas, dbTables>>
    /\ UNCHANGED <<insVars, cfgVars, fetchVars, df, chunksize, pc, calls, err,
                   workErr, pending, committed, connOpen>>

\* if table_exists(cur=cur, schema_name=..., table_name=...): raise ValueError
CtTableProbe ==
    /\ pc = "work"
    /\ ct_pc = "table_probe"
    /\ \E out \in {"ok"} \cup DriverErrors :
        LET st == TableExistsStmt(Escape(schema_name), Escape(table_name))
            row == IF out = "ok" THEN TableRow(st, dbTables) ELSE NoRow
            target == IF out = "ok" THEN AfterTableProbe(ProbeAnswer(row))
                      ELSE "raised"
        IN /\ ctLog' = Append(ctLog, CtEntry(st, out, row))
           /\ ct_pc' = target
           /\ ctErr' = IF out # "ok" THEN FetchOneErrorExc(out)
                       ELSE IF target = "raised" THEN TableExistsExc
                       ELSE ctErr
    /\ UNCHANGED <<schema_name, table_name, columns_map, dbSchemas, dbTables>>
    /\ UNCHANGED <<insVars, cfgVars, fetchVars, df, chunksize, pc, calls, err,
                   workErr, pending, committed, connOpen>>

\* try: execute_query(cur=cur, query=query) except Exception: RuntimeError
CtExecute ==
    /\ pc = "work"
    /\ ct_pc = "create"
    /\ \E out \in {"ok"} \cup DriverErrors :
        LET st == CreateStmt(schema_name, table_name, columns_map)
        IN /\ ctLog' = Append(ctLog, CtEntry(st, out, NoRow))
           /\ IF out = "ok"
              THEN /\ dbTables' = dbTables \cup {<<st.schema, st.table>>}
                   /\ ct_pc' = "returned"
                   /\ UNCHANGED ctErr
              ELSE /\ ctErr' = CreateErrorExc(out)
                   /\ ct_pc' = "raised"
                   /\ UNCHANGED dbTables
    /\ UNCHANGED <<schema_name, table_name, columns_map, dbSchemas>>
    /\ UNCHANGED <<insVars, cfgVars, fetchVars, df, chunksize, pc, calls, err,
                   workErr, pending, committed, connOpen>>

(* ----------------------------- get_cursor ----------------------------- *)
\* variant: a failed connect is not raised, get_cursor goes on
ConnectSwallowsFailure ==
    /\ pc = "start"
    /\ cfg_pc = "built"
    /\ UNCHANGED <<cfgVars, fetchVars, ctVars>>
    /\ calls' = Append(calls, "connect")
    /\ \E ok \in BOOLEAN :
          /\ pc' = "cursor"
          /\ connOpen' = ok
          /\ err' = err
    /\ UNCHANGED <<df, chunksize, workErr, pending, committed>>
    /\ UNCHANGED insVars

\* conn = connect_to_db(database_url)
Connect ==
    /\ pc = "start"
    /\ cfg_pc = "built"
    /\ UNCHANGED <<cfgVars, fetchVars, ctVars>>
    /\ calls' = Append(calls, "connect")
    /\ \E ok \in BOOLEAN :
          IF ok
          THEN /\ pc' = "cursor"
               /\ connOpen' = TRUE
               /\ err' = err
          ELSE /\ pc' = "done"
               /\ connOpen' = connOpen
               /\ err' = ConnectionErrorExc
    /\ UNCHANGED <<df, chunksize, workErr, pending, committed>>
    /\ UNCHANGED insVars

\* cur = conn.cursor(); on success the generator yields and the with-body
\* starts
Cursor ==
    /\ pc = "cursor"
    /\ UNCHANGED <<cfgVars, fetchVars, ctVars>>
    /\ calls' = Append(calls, "cursor")
    /\ \E ok \in BOOLEAN :
          IF ok
          THEN /\ pc' = "work"
               /\ ins_pc' = "check"
               /\ err' = err
          ELSE /\ pc' = "done"
               /\ ins_pc' = ins_pc
               /\ err' = CursorErrorExc
    /\ UNCHANGED <<df, chunksize, workErr, pending, committed, connOpen>>
    /\ UNCHANGED <<start, end, chunk, chunks, bufCreated, bufOpen, bufData,
                   insExc, copyCalls>>

\* conn.commit()
Commit ==
    /\ pc = "commit"
    /\ UNCHANGED <<cfgVars, fetchVars, ctVars>>
    /\ calls' = Append(calls, "commit")
    /\ \E ok \in BOOLEAN :
          /\ pc' = CommitTarget(ok)
          /\ IF ok
             THEN /\ committed' = committed \o pending
                  /\ pending' = <<>>
                  /\ err' = err
             ELSE /\ committed' = committed
                  /\ pending' = pending
                  /\ err' = CommitErrorExc
    /\ UNCHANGED <<df, chunksize, workErr, connOpen>>
    /\ UNCHANGED insVars

\* except Exception: conn.rollback(); raise
Rollback ==
    /\ pc = "rollback"
    /\ UNCHANGED <<cfgVars, fetchVars, ctVars>>
    /\ calls' = Append(calls, "rollback")
    /\ \E ok \in BOOLEAN :
          /\ err' = AfterRollbackExc(ok, err)
          /\ pending' = IF ok THEN <<>> ELSE pending
    /\ pc' = "cur_close"
    /\ UNCHANGED <<df, chunksize, workErr, committed, connOpen>>
    /\ UNCHANGED insVars

\* finally: cur.close()
CurClose ==
    /\ pc = "cur_close"
    /\ UNCHANGED <<cfgVars, fetchVars, ctVars>>
    /\ calls' = Append(calls, "cur_close")
    /\ \E ok \in BOOLEAN :
          /\ pc' = CurCloseTarget(ok)
          /\ err' = IF ok THEN err ELSE CurCloseErrorExc
    /\ UNCHANGED <<df, chunksize, workErr, pending, committed, connOpen>>
    /\ UNCHANGED insVars

\* finally: conn.close(); a closed connection drops its open transaction
ConnClose ==
    /\ pc = "conn_close"
    /\ UNCHANGED <<cfgVars, fetchVars, ctVars>>
    /\ calls' = Append(calls, "conn_close")
    /\ \E ok \in BOOLEAN :
          IF ok
          THEN /\ connOpen' = FALSE
               /\ pending' = <<>>
               /\ err' = err
          ELSE /\ connOpen' = connOpen
               /\ pending' = pending
               /\ err' = ConnCloseErrorExc
    /\ pc' = "done"
    /\ UNCHANGED <<df, chunksize, workErr, committed>>
    /\ UNCHANGED insVars

(* -------------------------- insert_dataframe -------------------------- *)
\* if df.empty: raise ValueError; start = 0; end = min(start + chunksize, len)
InsCheck ==
    /\ pc = "work"
    /\ UNCHANGED <<cfgVars, fetchVars, ctVars>>
    /\ ins_pc = "check"
    /\ IF DfEmpty(df)
       THEN /\ ins_pc' = "raised"
            /\ BodyExit(EmptyErrorExc)
            /\ UNCHANGED <<start, end>>
       ELSE /\ ins_pc' = "loop"
            /\ start' = 0
            /\ end' = InitEnd(0, chunksize, DfLen(df))
            /\ UNCHANGED <<pc, err, workErr>>
    /\ UNCHANGED <<df, chunksize, calls, chunk, chunks, bufCreated, bufOpen,
                   bufData, insExc, copyCalls, pending, committed, connOpen>>

\* while start < len(df): chunk = df.iloc[start:end]
\* the logs of insert_dataframe keep its first MaxCalls loop iterations
Record(log, x) == IF Len(log) < MaxCalls THEN Append(log, x) ELSE log

InsLoop ==
    /\ pc = "work"
    /\ UNCHANGED <<cfgVars, fetchVars, ctVars>>
    /\ ins_pc = "loop"
    /\ IF LoopGuard(start, DfLen(df))
       THEN /\ chunk' = Iloc(df.rows, start, end)
            /\ chunks' = Record(chunks, Range(start, end, DfLen(df)))
            /\ ins_pc' = "to_csv"
       ELSE /\ ins_pc' = "returned"
            /\ UNCHANGED <<chunk, chunks>>
    /\ UNCHANGED <<df, chunksize, pc, calls, err, workErr, start, end,
                   bufCreated, bufOpen, bufData, insExc, copyCalls, pending,
                   committed, connOpen>>

\* buffer = io.StringIO(); chunk.to_csv(buffer, ...); buffer.seek(0)
InsToCsv ==
    /\ pc = "work"
    /\ UNCHANGED <<cfgVars, fetchVars, ctVars>>
    /\ ins_pc = "to_csv"
    /\ bufCreated' = Min(bufCreated + 1, MaxCalls)
    /\ bufOpen' = bufOpen + 1
    /\ \E ok \in BOOLEAN :
          IF ok
          THEN /\ bufData' = ToCsv(chunk)
               /\ ins_pc' = "copy"
               /\ UNCHANGED <<pc, err, workErr>>
          ELSE /\ bufData' = <<>>
               /\ ins_pc' = "raised"
               /\ BodyExit(ToCsvErrorExc)
    /\ UNCHANGED <<df, chunksize, calls, start, end, chunk, chunks, insExc,
                   copyCalls, pending, committed, connOpen>>

\* the exception insert_dataframe's except clause raises for a failed copy
CopyFailure(cause) == TransferErrorExc(cause)

\* try: cur.copy_expert(sql=sql, file=buffer)
\* except Exception as e: raise RuntimeError(...) from e
InsCopy ==
    /\ pc = "work"
    /\ UNCHANGED <<cfgVars, fetchVars, ctVars>>
    /\ ins_pc = "copy"
    /\ \E outcome \in {"ok"} \cup CopyErrors :
          /\ copyCalls' = Record(copyCalls,
                [table |-> <<Schema, TableName>>, columns |-> df.columns,
                 payload |-> bufData, outcome |-> outcome])
          /\ IF outcome = "ok"
             THEN /\ pending' = IF Len(copyCalls) < MaxCalls
                                THEN pending \o bufData
                                ELSE pending
                  /\ insExc' = NoExc
             ELSE /\ pending' = pending
                  /\ insExc' = CopyFailure(outcome)
    /\ ins_pc' = "buf_close"
    /\ UNCHANGED <<df, chunksize, pc, calls, err, workErr, start, end, chunk,
                   chunks, bufCreated, bufOpen, bufData, committed, connOpen>>

\* variant: a failed copy is swallowed and the loop goes on
AfterBufCloseSwallow(e) == "loop"

\* what insert_dataframe does after buffer.close() given the pending
\* exception: go on with the next chunk, or leave
AfterBufClose(e) == IF e = NoExc THEN "loop" ELSE "raised"

\* finally: buffer.close(); then start = end; end += chunksize, or the
\* pending RuntimeError leaves the function
InsBufClose ==
    /\ pc = "work"
    /\ UNCHANGED <<cfgVars, fetchVars, ctVars>>
    /\ ins_pc = "buf_close"
    /\ bufOpen' = bufOpen - 1
    /\ ins_pc' = AfterBufClose(insExc)
    /\ IF AfterBufClose(insExc) = "loop"
       THEN /\ start' = NextStart(start, end)
            /\ end' = NextEnd(end, chunksize)
            /\ UNCHANGED <<pc, err, workErr>>
       ELSE /\ BodyExit(insExc)
            /\ UNCHANGED <<start, end>>
    /\ UNCHANGED <<df, chunksize, calls, chunk, chunks, bufCreated, bufData,
                   insExc, copyCalls, pending, committed, connOpen>>

\* the rest of the with-body after insert_dataframe returned: it completes,
\* raises an Exception, or is interrupted by a BaseException
BodyOutcomes == {NoExc, BoomExc, InterruptExc}

BodyRest ==
    /\ pc = "work"
    /\ f_pc \in {"idle", "returned"}
    /\ UNCHANGED <<cfgVars, fetchVars, ctVars>>
    /\ ins_pc = "returned"
    /\ ins_pc' = "exited"
    /\ \E e \in BodyOutcomes : BodyExit(e)
    /\ UNCHANGED <<df, chunksize, calls, start, end, chunk, chunks,
                   bufCreated, bufOpen, bufData, insExc, copyCalls, pending,
                   committed, connOpen>>

Next ==
    \/ LoadDbConfig
    \/ BuildConnectionString
    \/ Connect
    \/ Cursor
    \/ InsCheck
    \/ InsLoop
    \/ InsToCsv
    \/ InsCopy
    \/ InsBufClose
    \/ FetchEstExecute
    \/ FetchEstFetchone
    \/ FetchExecute
    \/ FetchPull
    \/ BodyRest
    \/ Commit
    \/ Rollback
    \/ CurClose
    \/ ConnClose

Spec == Init /\ [][Next]_vars

(* ------------ insert_dataframe alone, with any integer chunksize ------ *)
\* the state in which the with-body calls insert_dataframe: configuration
\* done, connection and cursor open
InitTerm ==
    /\ df \in Frames
    /\ chunksize \in 0..MaxChunk
    /\ pc = "work"
    /\ calls = <<"connect", "cursor">>
    /\ err = NoExc
    /\ workErr = NoExc
    /\ ins_pc = "check"
    /\ start = 0
    /\ end = 0
    /\ chunk = <<>>
    /\ chunks = <<>>
    /\ bufCreated = 0
    /\ bufOpen = 0
    /\ bufData = <<>>
    /\ insExc = NoExc
    /\ copyCalls = <<>>
    /\ pending = <<>>
    /\ committed = <<>>
    /\ connOpen = TRUE
    /\ cred = [k \in StandardKeys |-> CredValue(k)]
    /\ cfg_pc = "built"
    /\ keysCheck = <<TRUE, {}>>
    /\ url = ConnectionString([k \in StandardKeys |-> CredValue(k)])
    /\ cfgErr = NoExc
    /\ f_pc = "idle"
    /\ query = NoQuery
    /\ batch_size = 0
    /\ rows_estimate = 0
    /\ curResult = <<>>
    /\ description = <<>>
    /\ results = <<>>
    /\ progress = [total |-> 0, completed |-> 0]
    /\ pulled = <<>>
    /\ curLog = <<>>
    /\ fetchRet = NoReturn
    /\ CtIdle

NextTerm ==
    \/ InsCheck
    \/ InsLoop
    \/ InsToCsv
    \/ InsCopy
    \/ InsBufClose

\* insert_dataframe is sequential code: a step that can be taken is taken
SpecTerm == InitTerm /\ [][NextTerm]_vars /\ WF_vars(NextTerm)

(* ---------------- create_table alone, inside the with-body ------------ *)
\* the state in which the with-body calls create_table: configuration
\* done, connection and cursor open; a table lives in an existing schema
InitCreate ==
    /\ df = Frame(Columns, 0)
    /\ chunksize = 1
    /\ pc = "work"
    /\ calls = <<"connect", "cursor">>
    /\ err = NoExc
    /\ workErr = NoExc
    /\ ins_pc = "idle"
    /\ start = 0
    /\ end = 0
    /\ chunk = <<>>
    /\ chunks = <<>>
    /\ bufCreated = 0
    /\ bufOpen = 0
    /\ bufData = <<>>
    /\ insExc = NoExc
    /\ copyCalls = <<>>
    /\ pending = <<>>
    /\ committed = <<>>
    /\ connOpen = TRUE
    /\ cred = [k \in StandardKeys |-> CredValue(k)]
    /\ cfg_pc = "built"
    /\ keysCheck = <<TRUE, {}>>
    /\ url = ConnectionString([k \in StandardKeys |-> CredValue(k)])
    /\ cfgErr = NoExc
    /\ f_pc = "idle"
    /\ query = NoQuery
    /\ batch_size = 0
    /\ rows_estimate = 0
    /\ curResult = <<>>
    /\ description = <<>>
    /\ results = <<>>
    /\ progress = [total |-> 0, completed |-> 0]
    /\ pulled = <<>>
    /\ curLog = <<>>
    /\ fetchRet = NoReturn
    /\ ct_pc = "check_types"
    /\ schema_name \in SchemaNames
    /\ table_name \in TableNames
    /\ columns_map \in ColumnMaps
    /\ dbSchemas \in SUBSET CatalogSchemas
    /\ dbTables \in {ts \in SUBSET CatalogTables : \A t \in ts : t[1] \in dbSchemas}
    /\ ctLog = <<>>
    /\ ctErr = NoExc

NextCreate ==
    \/ CtCheckTypes
    \/ CtSchemaProbe
    \/ CtTableProbe
    \/ CtExecute

SpecCreate == InitCreate /\ [][NextCreate]_vars

TypeOK ==
    /\ pc \in {"start", "cursor", "work", "commit", "rollback", "cur_close",
               "conn_close", "done"}
    /\ ins_pc \in {"idle", "check", "loop", "to_csv", "copy", "buf_close",
                   "returned", "raised", "exited"}
    /\ bufOpen \in 0..bufCreated

(* ====================== properties of get_cursor ====================== *)
Done == pc = "done"

\* the with-body was entered: connect and cursor() both succeeded
BodyEntered == ins_pc # "idle"

\* the with-body ran to its end without raising
BodyCompleted == ins_pc = "exited" /\ workErr = NoExc

\* C1: when the with-body raises an exception, get_cursor ends with exactly
\* one rollback, no commit, one cursor close and one connection close.
C1_RaiseRollsBackAndReleases ==
    (Done /\ BodyEntered /\ IsException(workErr)) =>
        /\ Count("rollback") = 1
        /\ Count("commit") = 0
        /\ Count("cur_close") = 1
        /\ Count("conn_close") = 1

\* C2: when the with-body completes without raising, get_cursor ends with
\* exactly one commit, no rollback, and one cursor close and one connection
\* close, both after the commit.
C2_SuccessCommitsAndReleases ==
    (Done /\ BodyCompleted) =>
        /\ Count("commit") = 1
        /\ Count("rollback") = 0
        /\ Count("cur_close") = 1
        /\ Count("conn_close") = 1
        /\ Pos("commit") < Pos("cur_close")
        /\ Pos("commit") < Pos("conn_close")

\* C3: on every exit of a get_cursor invocation that handed its cursor to the
\* with-body, commit calls plus rollback calls number exactly one.
C3_ExactlyOneCommitOrRollback ==
    (Done /\ BodyEntered) => Count("commit") + Count("rollback") = 1

\* C4: once get_cursor has its cursor, every exit path has called both
\* cur.close() and conn.close().
C4_ReleaseOnEveryExit ==
    (Done /\ BodyEntered) =>
        /\ Count("cur_close") >= 1
        /\ Count("conn_close") >= 1

\* C5: when the with-body raises E, the exception the caller of get_cursor
\* sees is E itself, whatever rollback and the close calls do.
C5_OriginalFailurePropagates ==
    (Done /\ workErr # NoExc) => err = workErr

(* ==================== properties of insert_dataframe ================== *)
NonEmpty == Len(df.rows) > 0 /\ Len(df.columns) > 0

InsReturned == ins_pc \in {"returned", "exited"}

\* the CSV lines of rows lo+1..hi of the frame
Lines(lo, hi) == [i \in 1..(hi - lo) |-> df.rows[lo + i].vals]

AllLines == Lines(0, Len(df.rows))

Payloads == [i \in DOMAIN copyCalls |-> copyCalls[i].payload]

AllCopiesOk == \A i \in DOMAIN copyCalls : copyCalls[i].outcome = "ok"

\* C6: for a non-empty frame of N rows and chunksize >= 1 the chunks are
\* contiguous row ranges of 1..chunksize rows starting at row 0, only a chunk
\* ending at row N is smaller than chunksize, and a call that returns has
\* covered all N rows in ceil(N / chunksize) chunks and as many copy_expert
\* calls.
C6_ChunksPartitionDataset ==
    (NonEmpty /\ chunksize >= 1) =>
        /\ \A i \in DOMAIN chunks :
              /\ chunks[i].lo = (IF i = 1 THEN 0 ELSE chunks[i - 1].hi)
              /\ chunks[i].hi - chunks[i].lo >= 1
              /\ chunks[i].hi - chunks[i].lo <= chunksize
              /\ chunks[i].hi <= Len(df.rows)
              /\ (chunks[i].hi - chunks[i].lo < chunksize
                    => chunks[i].hi = Len(df.rows))
        /\ Len(copyCalls) <= Len(chunks)
        /\ InsReturned =>
              /\ chunks # <<>>
              /\ chunks[Len(chunks)].hi = Len(df.rows)
              /\ Len(chunks) = CeilDiv(Len(df.rows), chunksize)
              /\ Len(copyCalls) = CeilDiv(Len(df.rows), chunksize)

C6_Witness ==
    /\ ins_pc = "returned"
    /\ Len(df.rows) = 3
    /\ chunksize = 2
    /\ Len(copyCalls) = 2
    /\ chunks = <<[lo |-> 0, hi |-> 2], [lo |-> 2, hi |-> 3]>>

\* C7: the payloads of the copy_expert calls, concatenated in call order, are
\* at every moment the first lines of the frame in frame order, each call
\* carrying exactly the rows of its chunk; after a call in which every copy
\* succeeded they are all the lines of the frame, each once, and so are the
\* lines written by the transaction.
C7_BatchesInDatasetOrder ==
    (NonEmpty /\ chunksize >= 1) =>
        /\ Len(Concat(Payloads)) <= Len(df.rows)
        /\ Concat(Payloads) = Lines(0, Len(Concat(Payloads)))
        /\ \A i \in DOMAIN copyCalls :
              copyCalls[i].payload = Lines(chunks[i].lo, chunks[i].hi)
        /\ (InsReturned /\ AllCopiesOk) =>
              /\ Concat(Payloads) = AllLines
              /\ pc = "work" => pending = AllLines

C7_Witness ==
    /\ ins_pc = "returned"
    /\ Len(df.rows) = 3
    /\ chunksize = 1
    /\ Len(copyCalls) = 3
    /\ Concat(Payloads) = <<<<1, 101>>, <<2, 102>>, <<3, 103>>>>

\* C8: a failed copy_expert call is the last one: no call follows it, no
\* further chunk is computed, and insert_dataframe leaves with a RuntimeError
\* that names schema.table and carries the cause of the failed call.
C8_FailureStopsTransfer ==
    \A k \in DOMAIN copyCalls :
        copyCalls[k].outcome # "ok" =>
            /\ k = Len(copyCalls)
            /\ Len(chunks) = k
            /\ ins_pc \in {"buf_close", "raised"}
            /\ ins_pc = "raised" =>
                  /\ workErr.type = "RuntimeError"
                  /\ workErr.table = <<Schema, TableName>>
                  /\ workErr.cause = copyCalls[k].outcome

C8_Witness ==
    /\ ins_pc = "raised"
    /\ Len(df.rows) = 3
    /\ chunksize = 1
    /\ Len(copyCalls) = 2
    /\ copyCalls[1].outcome = "ok"
    /\ copyCalls[2].outcome = "connection lost"
    /\ workErr.cause = "connection lost"

\* C9: inside get_cursor no commit is called before insert_dataframe and the
\* with-body have ended, the committed lines are always none or all lines of
\* the frame, they are all lines only after one commit with every copy
\* succeeded, and a get_cursor that ends after a failed copy has called
\* rollback once, never commit, and committed nothing.
C9_SingleTransaction ==
    /\ Count("commit") > 0 => ins_pc = "exited"
    /\ committed = <<>> \/ committed = AllLines
    /\ Count("commit") <= 1
    /\ committed # <<>> =>
          /\ AllCopiesOk
          /\ Count("commit") = 1
          /\ Count("rollback") = 0
    /\ (Done /\ ~AllCopiesOk) =>
          /\ committed = <<>>
          /\ Count("rollback") = 1
          /\ Count("commit") = 0
    /\ (Done /\ ~connOpen /\ BodyEntered) => pending = <<>>

C9_Witness ==
    /\ Done
    /\ ~connOpen
    /\ Count("conn_close") = 1
    /\ Len(copyCalls) = 2
    /\ copyCalls[1].outcome = "ok"
    /\ copyCalls[2].outcome # "ok"
    /\ committed = <<>>
    /\ pending = <<>>

\* C10: insert_dataframe on an empty frame (no rows or no columns) raises the
\* ValueError "The provided DataFrame is empty and cannot be inserted." with
\* no copy_expert call made, no chunk taken and no buffer created.
C10_EmptyFrameRejected ==
    ((Len(df.rows) = 0 \/ Len(df.columns) = 0)
        /\ ins_pc \notin {"idle", "check"}) =>
        /\ ins_pc = "raised"
        /\ workErr.type = "ValueError"
        /\ workErr.msg = "The provided DataFrame is empty and cannot be inserted."
        /\ copyCalls = <<>>
        /\ chunks = <<>>
        /\ bufCreated = 0

C10_Witness ==
    /\ Len(df.rows) = 0
    /\ ins_pc = "raised"
    /\ workErr = EmptyErrorExc
    /\ copyCalls = <<>>

(* ===================== properties of fetch_in_chunks ================== *)
FetchReturned == f_pc = "returned"

LastLog == curLog[Len(curLog)]

\* C11: a fetch_in_chunks call in which no pull failed returns the batches
\* the server delivered, concatenated in delivery order, up to the first
\* empty pull; that is the whole result set of the query, whatever the row
\* estimate was, and while it runs `results` is what was delivered so far.
C11_FetchExhaustiveInOrder ==
    /\ f_pc = "pull" => results = Concat(pulled)
    /\ FetchReturned =>
          /\ fetchRet.rows = Concat(pulled)
          /\ pulled # <<>>
          /\ \A i \in DOMAIN pulled : (pulled[i] = <<>>) <=> (i = Len(pulled))
          /\ curResult = <<>>
          /\ pc = "work" => fetchRet.rows = QueryResult(query, TableRows)

C11_Witness ==
    /\ FetchReturned
    /\ rows_estimate = 2
    /\ batch_size = 2
    /\ Len(fetchRet.rows) = 3
    /\ Len(pulled) = 3
    /\ progress = [total |-> 2, completed |-> 3]

\* C12: when the catalog lookup, the execution of the query or a pull fails,
\* fetch_in_chunks raises the Exception "An error occurred during fetch"
\* carrying the cause of the failed call, that call is its last one, and it
\* returns nothing, whatever `results` holds; it returns only when no call
\* failed.
C12_FetchFailureReturnsNothing ==
    /\ (curLog # <<>> /\ LastLog.outcome # "ok") =>
          /\ f_pc = "raised"
          /\ fetchRet = NoReturn
          /\ workErr.type = "Exception"
          /\ workErr.msg = "An error occurred during fetch"
          /\ workErr.cause = LastLog.outcome
    /\ \A i \in DOMAIN curLog : curLog[i].outcome # "ok" => i = Len(curLog)
    /\ f_pc = "raised" => (curLog # <<>> /\ LastLog.outcome # "ok")
    /\ fetchRet.returned => (FetchReturned /\ \A i \in DOMAIN curLog : curLog[i].outcome = "ok")

C12_Witness ==
    /\ f_pc = "raised"
    /\ LastLog.op = "fetchmany"
    /\ Len(results) = 2
    /\ fetchRet = NoReturn
    /\ workErr = FetchErrorExc("connection lost")

\* C13 as claimed: fetch_in_chunks returns the column names of the query's
\* result together with the accumulated rows.
C13_ReturnsColumnNames ==
    FetchReturned =>
        /\ fetchRet.columns = query.columns
        /\ fetchRet.rows = Concat(pulled)

\* C13 as amended: fetch_in_chunks returns the accumulated rows only and no
\* column-name list, also for a query with 0 rows, where the returned
\* sequence is empty; the column names of the projection are on
\* cursor.description, which fetch_in_chunks does not read.
C13_ReturnsRowsOnly ==
    FetchReturned =>
        /\ fetchRet.returned
        /\ fetchRet.columns = <<>>
        /\ fetchRet.rows = Concat(pulled)
        /\ description = query.columns
        /\ pc = "work" => fetchRet.rows = QueryResult(query, TableRows)

C13_Witness ==
    /\ FetchReturned
    /\ fetchRet = [returned |-> TRUE, rows |-> <<>>, columns |-> <<>>]
    /\ pulled = << <<>> >>
    /\ description = <<"price", "ticker">>

\* C14: the estimate estimate_table_rows hands to fetch_in_chunks is the
\* catalog's reltuples when that is positive and 100000 when the lookup has
\* no row or reports 0; it becomes the total of the progress task.
C14_EstimateOrFallback ==
    [][(f_pc = "est_fetchone" /\ f_pc' = "execute") =>
          rows_estimate' =
             (IF curResult # <<>> /\ curResult[1][1] > 0
              THEN curResult[1][1]
              ELSE IF curResult = <<>> \/ curResult[1][1] = 0
              THEN 100000
              ELSE rows_estimate')]_vars

\* C15: whatever the catalog lookup answers, the estimate is an integer >= 0.
C15_EstimateNonNegative ==
    f_pc \in {"execute", "pull", "returned"} => rows_estimate >= 0

\* C16: reading the table back with SELECT <the frame's columns> in the
\* session that inserted the frame into the empty table returns the N rows of
\* the frame, in order, each with its values in the frame's column order,
\* for every chunksize and every batch_size.
C16_RoundTrip ==
    (FetchReturned /\ query = [columns |-> df.columns, after |-> 0]) =>
        /\ Len(fetchRet.rows) = Len(df.rows)
        /\ fetchRet.rows = [i \in 1..Len(df.rows) |-> df.rows[i].vals]

C16_Witness ==
    /\ FetchReturned
    /\ query = [columns |-> <<"ticker", "price">>, after |-> 0]
    /\ chunksize = 1
    /\ batch_size = 4
    /\ Len(copyCalls) = 3
    /\ fetchRet.rows = << <<1, 101>>, <<2, 102>>, <<3, 103>> >>

(* ================== properties of get_cursor, continued =============== *)
\* connect_to_db was called and did not open a connection
ConnectFailed == calls # <<>> /\ ~connOpen /\ Count("conn_close") = 0

\* C17: when the connection cannot be opened, get_cursor ends at once with
\* a ConnectionError: connect was called once, the with-body never starts,
\* and no cursor, commit, rollback or close call is made.
C17_ConnectFailureIsFatal ==
    /\ Count("connect") <= 1
    /\ ConnectFailed =>
          /\ pc = "done"
          /\ calls = <<"connect">>
          /\ err.type = "ConnectionError"
          /\ ins_pc = "idle"
          /\ f_pc = "idle"
          /\ copyCalls = <<>>
          /\ curLog = <<>>
    /\ err.type = "ConnectionError" => ConnectFailed

C17_Witness ==
    /\ pc = "done"
    /\ calls = <<"connect">>
    /\ err = ConnectionErrorExc
    /\ ~connOpen

\* C18: every copy_expert call addresses the same schema.table and lists the
\* frame's columns in their order, and every line it carries has one field
\* per column, the row's values, with no index label.
C18_CopyTargetsAndColumns ==
    \A i \in DOMAIN copyCalls :
        /\ copyCalls[i].table = <<"mock_schema", "mock_prices">>
        /\ copyCalls[i].columns = df.columns
        /\ \A j \in DOMAIN copyCalls[i].payload :
              /\ Len(copyCalls[i].payload[j]) = Len(df.columns)
              /\ copyCalls[i].payload[j] = df.rows[chunks[i].lo + j].vals

C18_Witness ==
    /\ Len(df.rows) = 3
    /\ chunksize = 2
    /\ Len(copyCalls) = 2
    /\ copyCalls[1].columns = <<"ticker", "price">>
    /\ copyCalls[2].columns = <<"ticker", "price">>
    /\ Len(copyCalls[1].payload) = 2
    /\ Len(copyCalls[2].payload) = 1

(* ==================== properties of the configuration ================= *)
RequiredKeys == {"host", "port", "dbname", "user", "password"}

MissingIn(d) == RequiredKeys \ (DOMAIN d)

\* C19: for every credential record _db_keys_check returns the required keys
\* the record lacks and a boolean that is true exactly when none is lacking;
\* whenever a key is lacking, build_connection_string and load_db_config end
\* with a raised error, no connection string and no connect call.
C19_MissingKeysRejected ==
    /\ \A d \in Creds :
          /\ DbKeysCheck(d)[2] = MissingIn(d)
          /\ DbKeysCheck(d)[1] <=> (MissingIn(d) = {})
    /\ cfg_pc \in {"build", "built", "raised"} =>
          (keysCheck[2] # {} => keysCheck = <<FALSE, MissingIn(cred)>>)
    /\ MissingIn(cred) # {} =>
          /\ cfg_pc \in {"load", "raised"}
          /\ url = <<>>
          /\ calls = <<>>
    /\ cfg_pc = "raised" =>
          /\ cfgErr.type = "Exception"
          /\ url = <<>>
          /\ calls = <<>>
    /\ cfg_pc = "built" => (MissingIn(cred) = {} /\ url = ConnectionString(cred))

C19_Witness ==
    /\ cfg_pc = "raised"
    /\ cfgErr = MissingKeysExc
    /\ keysCheck = <<FALSE, {"password"}>>
    /\ DOMAIN cred = {"host", "port", "dbname", "user", "sslmode"}
    /\ url = <<>>

(* ======================= order of get_cursor ========================== *)
Rank(op) ==
    CASE op = "connect" -> 1
      [] op = "cursor" -> 2
      [] op = "commit" -> 4
      [] op = "rollback" -> 5
      [] op = "cur_close" -> 6
      [] op = "conn_close" -> 7

\* the session is OPEN: connected, cursor handed out, not yet finalized
SessionOpen == connOpen /\ calls = <<"connect", "cursor">>

\* the with-body operated on the cursor in this step
BodyStep ==
    \/ copyCalls' # copyCalls
    \/ curLog' # curLog
    \/ bufCreated' # bufCreated
    \/ chunks' # chunks

\* C20: the calls of get_cursor come in the order connect, cursor, commit,
\* rollback, cur.close, conn.close, each at most once; every operation of the
\* with-body happens while the session is OPEN, between cursor() and the
\* first of these finalizing calls; after conn.close() nothing more happens.
C20_CallOrder ==
    /\ [](/\ \A i, j \in DOMAIN calls :
                i < j => Rank(calls[i]) < Rank(calls[j])
          /\ pc = "work" => SessionOpen
          /\ Count("conn_close") > 0 => pc = "done")
    /\ [][(BodyStep => (pc = "work" /\ SessionOpen))
          /\ (pc = "done" => UNCHANGED vars)]_vars

C20_Witness ==
    /\ pc = "done"
    /\ calls = <<"connect", "cursor", "commit", "cur_close", "conn_close">>
    /\ Len(copyCalls) = 2
    /\ FetchReturned

(* ================== release of connection and buffers ================= *)
\* C21: every connection get_cursor opened has had conn.close() called when
\* get_cursor has returned or raised.
C21_OpenedConnectionClosed ==
    (pc = "done" /\ Count("cursor") >= 1) => Count("conn_close") >= 1

\* C22: at most one serialization buffer is open at any time, a new buffer is
\* created only when the previous one is closed, and none is open when
\* insert_dataframe has returned or raised.
C22_BuffersReleased ==
    /\ bufOpen <= 1
    /\ ins_pc = "to_csv" => bufOpen = 0
    /\ ins_pc \in {"returned", "raised", "exited"} => bufOpen = 0

(* ===================== pulls of fetch_in_chunks ======================= *)
\* the rows of the query's result set: those pulled and those still unread
ResultSize == Len(Concat(pulled)) + Len(curResult)

FetchmanyLog == SelectSeq(curLog, LAMBDA e : e.op = "fetchmany")

\* C24: every pull asks for batch_size rows and delivers at most that many;
\* a pull that delivers no row is the last one; a call that returns for a
\* result set of R rows has made ceil(R / batch_size) + 1 pulls, one (and an
\* empty result) for R = 0.
C24_PullCount ==
    /\ \A i \in DOMAIN pulled : Len(pulled[i]) <= batch_size
    /\ \A i \in DOMAIN FetchmanyLog : FetchmanyLog[i].n = batch_size
    /\ \A i \in DOMAIN pulled : pulled[i] = <<>> => (i = Len(pulled) /\ f_pc # "pull")
    /\ f_pc = "pull" => Len(pulled) <= CeilDiv(ResultSize, batch_size)
    /\ FetchReturned =>
          /\ Len(pulled) = CeilDiv(Len(fetchRet.rows), batch_size) + 1
          /\ Len(FetchmanyLog) = Len(pulled)
          /\ (Len(pulled) = 1 => fetchRet.rows = <<>>)

C24_Witness ==
    /\ FetchReturned
    /\ batch_size = 2
    /\ Len(fetchRet.rows) = 3
    /\ Len(pulled) = 3
    /\ Len(pulled[2]) = 1

\* the statements and fetches of a complete fetch_in_chunks call with k pulls
ExpectedLog(k) ==
    << LogEntry("execute", "catalog", 0, "ok"),
       LogEntry("fetchone", "catalog", 1, "ok"),
       LogEntry("execute", "query", 0, "ok") >>
    \o [i \in 1..k |-> LogEntry("fetchmany", "query", batch_size, "ok")]

\* C25: a fetch_in_chunks call executes the catalog lookup once, reads one row
\* of it, then executes the query once and after that only pulls; the rows it
\* pulls are rows of the query's result set in order, never a catalog row.
C25_LookupBeforeQuery ==
    /\ \A i \in DOMAIN curLog :
          /\ curLog[i].stmt = "catalog" <=> i <= 2
          /\ curLog[i].op = "execute" <=> i \in {1, 3}
          /\ curLog[i].op = "fetchone" <=> i = 2
          /\ curLog[i].op = "fetchmany" <=> i >= 4
    /\ (f_pc \in {"pull", "returned"} /\ pc = "work") =>
          /\ Concat(pulled) \o curResult = QueryResult(query, TableRows)
          /\ \A i \in DOMAIN results : results[i] \notin {<<2, 1>>, <<0, 1>>}
    /\ FetchReturned => curLog = ExpectedLog(Len(pulled))

C25_Witness ==
    /\ FetchReturned
    /\ rows_estimate = 2
    /\ curLog[1] = LogEntry("execute", "catalog", 0, "ok")
    /\ Len(curLog) = 5
    /\ Len(fetchRet.rows) = 1
    /\ \E i \in DOMAIN curLog : curLog[i].op = "fetchmany" /\ curLog[i].n = 1

(* ================= termination of insert_dataframe ==================== *)
\* C23: for every frame and every integer chunksize, insert_dataframe
\* eventually returns or raises.
C23_InsertTerminates == <>(ins_pc \in {"returned", "raised"})

(* ======================= order of create_table ======================== *)
CreateEntries == {i \in DOMAIN ctLog : ctLog[i].stmt.kind = "create_table"}

CtRaisedValueError == ct_pc = "raised" /\ ctErr.type = "ValueError"

\* C26: create_table runs CREATE TABLE at most once and only after the type
\* check passed, then the schema probe answered true, then the table probe
\* answered false; an unsupported type raises ValueError before the cursor
\* is used, a missing schema raises ValueError without the table probe, an
\* existing table raises ValueError.
C26_CreateAfterChecks ==
    /\ Cardinality(CreateEntries) <= 1
    /\ CreateEntries # {} =>
          /\ Unsupported(columns_map) = {}
          /\ Len(ctLog) = 3
          /\ ctLog[1].stmt.kind = "schema_exists"
          /\ ctLog[1].outcome = "ok" /\ ctLog[1].row = <<TRUE>>
          /\ ctLog[2].stmt.kind = "table_exists"
          /\ ctLog[2].outcome = "ok" /\ ctLog[2].row = <<FALSE>>
          /\ ctLog[3].stmt.kind = "create_table"
    /\ (Unsupported(columns_map) # {} /\ ct_pc # "check_types") =>
          CtRaisedValueError /\ ctLog = <<>>
    /\ (Len(ctLog) >= 1 /\ ctLog[1].outcome = "ok" /\ ctLog[1].row # <<TRUE>>) =>
          CtRaisedValueError /\ Len(ctLog) = 1
    /\ (Len(ctLog) >= 2 /\ ctLog[2].outcome = "ok" /\ ctLog[2].row = <<TRUE>>) =>
          CtRaisedValueError /\ Len(ctLog) = 2

\* a two-column table was created after both probes
C26_Witness ==
    /\ ct_pc = "returned"
    /\ Len(columns_map) = 2
    /\ Len(ctLog) = 3
    /\ ctLog[3].outcome = "ok"
    /\ <<Escape(schema_name), Escape(table_name)>> \in dbTables

====
